---- MODULE Spec2Model ----
(***************************************************************************)
(* Model of the dependency-environment manager of src/__init__.py:         *)
(* create_venv, install_packages, uninstall_packages and                   *)
(* check_dependencies_installed, acting on the filesystem (requirements    *)
(* file, environment root, interpreter binary, package directories), on    *)
(* sys.path and on the external processes they start.                      *)
(*                                                                         *)
(* A text line is a sequence of one-character strings.  Every call is one  *)
(* action (the code is synchronous and single-threaded); the external      *)
(* processes and library calls a call makes are recorded, in order, in     *)
(* log, with the exit status the environment chose for each.  The caller   *)
(* (an operator's execute) then returns to the host, which is idle until   *)
(* the next call.                                                          *)
(***************************************************************************)
EXTENDS Naturals, Sequences, FiniteSets

VARIABLES requirements_txt, rootExists, interpExists, sysPath,
          hostPkgs, rootPkgs, sitePkgs, venvRan, venvRanAgain, call, log,
          lastInstallClean

vars == <<requirements_txt, rootExists, interpExists, sysPath,
          hostPkgs, rootPkgs, sitePkgs, venvRan, venvRanAgain, call, log,
          lastInstallClean>>

(* ---------------------------- bounds ----------------------------------- *)

\* longest requirements file, in lines
MaxLines == 2

\* most appends of the environment root to sys.path in one behaviour
MaxAppends == 2

(* ---------------------------- text ------------------------------------- *)

\* the lines a requirements file is made of, as file.readlines() yields them
LBlank == <<" ", "\n">>
LPadA == <<" ", "a", " ", "\n">>
LB == <<"b">>
Lines == {LBlank, LPadA, LB}

\* the module names that exist at all
Pkgs == {<<"a">>, <<"b">>}

\* str.strip() with no argument removes leading and trailing whitespace
IsSpace(c) == c \in {" ", "\n", "\t", "\r"}

RECURSIVE lstrip(_)
lstrip(s) ==
    IF s = <<>> THEN s
    ELSE IF IsSpace(Head(s)) THEN lstrip(Tail(s)) ELSE s

RECURSIVE rstrip(_)
rstrip(s) ==
    IF s = <<>> THEN s
    ELSE IF IsSpace(s[Len(s)]) THEN rstrip(SubSeq(s, 1, Len(s) - 1)) ELSE s

strip(s) == rstrip(lstrip(s))

RECURSIVE SeqsUpTo(_, _)
SeqsUpTo(S, n) ==
    IF n = 0 THEN {<<>>}
    ELSE LET shorter == SeqsUpTo(S, n - 1)
         IN  shorter \cup {Append(q, x) : q \in shorter, x \in S}

\* the requirements file: absent, or a sequence of lines
Manifests ==
    {[exists |-> FALSE, lines |-> <<>>]}
        \cup {[exists |-> TRUE, lines |-> q] : q \in SeqsUpTo(Lines, MaxLines)}

(* ---------------------------- events ----------------------------------- *)

\* one entry of log: kind of step, interpreter that ran it, exit status (0 is
\* success), and the arguments that matter
Event(kind, exe, rc, force, pkg, root, ok) ==
    [kind |-> kind, exe |-> exe, rc |-> rc, force |-> force, pkg |-> pkg,
     root |-> root, ok |-> ok]

EvVenv(rc) == Event("venv.create", "host", rc, FALSE, <<>>, FALSE, FALSE)
EvEnsurepip(exe, rc) == Event("ensurepip", exe, rc, FALSE, <<>>, FALSE, FALSE)
EvUpgradePip(exe, rc) == Event("pip-upgrade", exe, rc, FALSE, <<>>, FALSE, FALSE)
EvInstall(exe, rc, force, root) ==
    Event("pip-install", exe, rc, force, <<>>, root, FALSE)
EvUninstall(exe, rc, pkg) ==
    Event("pip-uninstall", exe, rc, FALSE, pkg, FALSE, FALSE)
EvAppend == Event("syspath-append", "host", 0, FALSE, <<>>, FALSE, FALSE)
EvVerify(ok) == Event("verify", "host", 0, FALSE, <<>>, FALSE, ok)

\* the kinds that are installer processes started with subprocess.run
ProcessKinds == {"ensurepip", "pip-upgrade", "pip-install", "pip-uninstall"}

RC == {0, 1}

(* ---------------------------- path resolver ---------------------------- *)

\* the interpreter of the environment when its binary exists, else the
\* interpreter that is running the add-on (sys.executable)
python_exec(interp) == IF interp THEN "env" ELSE "host"

(* ---------------------------- verification ----------------------------- *)

\* importlib.import_module(name): the module is found through an entry of
\* sys.path, or ImportError is raised
import_module(name, path, host, root) ==
    \E i \in DOMAIN path :
        \/ path[i] = "host" /\ name \in host
        \/ path[i] = "env_root" /\ name \in root

\* a missing_packages loop that lacks the `if package_name:` test
RECURSIVE missing_packages_blank(_, _, _, _)
missing_packages_blank(packages, path, host, root) ==
    IF packages = <<>> THEN <<>>
    ELSE LET package_name == strip(Head(packages))
             rest == missing_packages_blank(Tail(packages), path, host, root)
         IN  IF ~import_module(package_name, path, host, root)
             THEN <<package_name>> \o rest
             ELSE rest

\* the loop that collects missing_packages
RECURSIVE missing_packages(_, _, _, _)
missing_packages(packages, path, host, root) ==
    IF packages = <<>> THEN <<>>
    ELSE LET package_name == strip(Head(packages))
             rest == missing_packages(Tail(packages), path, host, root)
         IN  IF package_name # <<>> /\ ~import_module(package_name, path, host, root)
             THEN <<package_name>> \o rest
             ELSE rest

check_dependencies_installed(req, path, host, root) ==
    IF ~req.exists THEN FALSE
    ELSE missing_packages(req.lines, path, host, root) = <<>>

BoolStr(b) == IF b THEN "True" ELSE "False"

(* ---------------------------- provisioner ------------------------------ *)

\* what venv.create(env_dir, with_pip=True) can do: succeed, or raise having
\* created nothing, the directory only, or the directory and the interpreter
VenvOutcomes == {"ok", "fail_noroot", "fail_root", "fail_interp"}

\* the outcomes create_venv can meet in a state: none is drawn when the root
\* exists, and ensurepip runs only after a successful venv.create
CreateOutcomes(root) ==
    IF root THEN {[vo |-> "ok", rc |-> 0]}
    ELSE {[vo |-> "ok", rc |-> r] : r \in RC}
             \cup {[vo |-> v, rc |-> 0] : v \in VenvOutcomes \ {"ok"}}

\* a create_venv that lacks the os.path.exists test
create_venv_unguarded(root, interp, vo, rc) ==
    IF vo = "ok"
    THEN [root |-> TRUE, interp |-> TRUE, raised |-> FALSE,
          log |-> <<EvVenv(0), EvEnsurepip(python_exec(TRUE), rc)>>]
    ELSE [root |-> root \/ vo # "fail_noroot",
          interp |-> interp \/ vo = "fail_interp",
          raised |-> TRUE, log |-> <<EvVenv(1)>>]

\* a create_venv that swallows the exception of venv.create
create_venv_swallow(root, interp, vo, rc) ==
    IF ~root
    THEN IF vo = "ok"
         THEN [root |-> TRUE, interp |-> TRUE, raised |-> FALSE,
               log |-> <<EvVenv(0), EvEnsurepip(python_exec(TRUE), rc)>>]
         ELSE [root |-> vo # "fail_noroot", interp |-> vo = "fail_interp",
               raised |-> FALSE, log |-> <<EvVenv(1)>>]
    ELSE [root |-> root, interp |-> interp, raised |-> FALSE, log |-> <<>>]

\* create_venv in a state (root, interp); vo and rc are the outcomes of
\* venv.create and of the ensurepip process that follows it
create_venv(root, interp, vo, rc) ==
    IF ~root
    THEN IF vo = "ok"
         THEN [root |-> TRUE, interp |-> TRUE, raised |-> FALSE,
               log |-> <<EvVenv(0), EvEnsurepip(python_exec(TRUE), rc)>>]
         ELSE [root |-> vo # "fail_noroot", interp |-> vo = "fail_interp",
               raised |-> TRUE, log |-> <<EvVenv(1)>>]
    ELSE [root |-> root, interp |-> interp, raised |-> FALSE, log |-> <<>>]

\* sys.path after add_virtualenv_to_syspath
add_virtualenv_to_syspath(path, root) ==
    IF root THEN Append(path, "env_root") ELSE path

(* ---------------------------- package operations ----------------------- *)

\* install steps that stop at the first process that fails
install_steps_checked(exe, override, rcs, root) ==
    IF rcs[1] # 0 THEN <<EvEnsurepip(exe, rcs[1])>>
    ELSE IF rcs[2] # 0 THEN <<EvEnsurepip(exe, rcs[1]), EvUpgradePip(exe, rcs[2])>>
    ELSE <<EvEnsurepip(exe, rcs[1]),
           EvUpgradePip(exe, rcs[2]),
           EvInstall(exe, rcs[3], override = TRUE, root)>>

\* install steps that never pass --force-reinstall
install_steps_unforced(exe, override, rcs, root) ==
    <<EvEnsurepip(exe, rcs[1]),
      EvUpgradePip(exe, rcs[2]),
      EvInstall(exe, rcs[3], FALSE, root)>>

\* the three installer processes of install_packages, in program order
install_steps(exe, override, rcs, root) ==
    <<EvEnsurepip(exe, rcs[1]),
      EvUpgradePip(exe, rcs[2]),
      EvInstall(exe, rcs[3], override = TRUE, root)>>

\* an install_packages that ends with `return check_dependencies_installed()`
install_return_verdict(verdict) == BoolStr(verdict)

\* install_packages returns nothing: the verdict of its last step is dropped
install_return(verdict) == "None"

\* the names `pip install -r requirements.txt` reads
RequirementNames(req) ==
    {strip(req.lines[i]) : i \in DOMAIN req.lines} \ {<<>>}

\* the directory tree after the processes of events ran: a successful pip
\* install with --target fills the environment root
RootAfter(events, req, root) ==
    IF \E i \in DOMAIN events :
           events[i].kind = "pip-install" /\ events[i].rc = 0 /\ req.exists
    THEN root \cup RequirementNames(req)
    ELSE root

\* an uninstall loop that breaks at the first failed uninstall
RECURSIVE uninstall_loop_break(_, _, _, _)
uninstall_loop_break(packages, exe, rcs, i) ==
    IF i > Len(packages) THEN <<>>
    ELSE LET package_name == strip(packages[i])
         IN  IF package_name # <<>>
             THEN <<EvUninstall(exe, rcs[i], package_name)>>
                      \o (IF rcs[i] # 0 THEN <<>>
                          ELSE uninstall_loop_break(packages, exe, rcs, i + 1))
             ELSE uninstall_loop_break(packages, exe, rcs, i + 1)

\* the loop of uninstall_packages over the lines from index i on
RECURSIVE uninstall_loop(_, _, _, _)
uninstall_loop(packages, exe, rcs, i) ==
    IF i > Len(packages) THEN <<>>
    ELSE LET package_name == strip(packages[i])
             rest == uninstall_loop(packages, exe, rcs, i + 1)
         IN  IF package_name # <<>>
             THEN <<EvUninstall(exe, rcs[i], package_name)>> \o rest
             ELSE rest

\* the exit statuses the uninstall processes can end with: one per line, drawn
\* only for the lines that start a process
UninstallOutcomes(packages) ==
    {f \in [DOMAIN packages -> RC] :
        \A i \in DOMAIN packages : strip(packages[i]) = <<>> => f[i] = 0}

\* a successful `pip uninstall -y name` run by interpreter exe removes name
\* from that interpreter's own site-packages
Removed(events, exe) ==
    {events[i].pkg : i \in {j \in DOMAIN events :
        events[j].kind = "pip-uninstall" /\ events[j].rc = 0 /\ events[j].exe = exe}}

(* ---------------------------- state ------------------------------------ *)

\* the record of the call that ran last: the entry point, its argument, how it
\* ended, and whether the environment root existed when it started
Call(op, override, raised, ret) ==
    [op |-> op, override |-> override, raised |-> raised, ret |-> ret,
     pre_root |-> rootExists]

\* no call is running
Idle ==
    [op |-> "idle", override |-> FALSE, raised |-> FALSE, ret |-> "None",
     pre_root |-> FALSE]

\* venv.create ran among events
HasVenv(events) ==
    \E i \in DOMAIN events : events[i].kind = "venv.create"

Init ==
    /\ requirements_txt \in Manifests
    /\ rootExists \in BOOLEAN
    /\ interpExists \in {b \in BOOLEAN : b => rootExists}
    /\ sysPath = <<"host">>
    /\ hostPkgs \in SUBSET Pkgs
    /\ rootPkgs \in {S \in SUBSET Pkgs : S # {} => rootExists}
    /\ sitePkgs \in {S \in SUBSET Pkgs : S # {} => interpExists}
    /\ venvRan = FALSE
    /\ venvRanAgain = FALSE
    /\ call = Idle
    /\ log = <<>>
    /\ lastInstallClean = FALSE

(* ---------------------------- entry points ----------------------------- *)

\* create_venv() called on its own
CreateVenv ==
    \E o \in CreateOutcomes(rootExists) :
        LET cv == create_venv(rootExists, interpExists, o.vo, o.rc)
        IN  /\ call = Idle
            /\ rootExists' = cv.root
            /\ interpExists' = cv.interp
            /\ venvRan' = (venvRan \/ HasVenv(cv.log))
            /\ venvRanAgain' = (venvRanAgain \/ (venvRan /\ HasVenv(cv.log)))
            /\ log' = cv.log
            /\ call' = Call("create_venv", FALSE, cv.raised, "None")
            /\ UNCHANGED <<requirements_txt, sysPath, hostPkgs, rootPkgs, sitePkgs,
                           lastInstallClean>>

\* install_packages(override)
InstallPackages ==
    \E override \in BOOLEAN, o \in CreateOutcomes(rootExists) :
      \E rcs \in (IF o.vo = "ok" THEN [1..3 -> RC] ELSE {[i \in 1..3 |-> 0]}) :
        LET cv == create_venv(rootExists, interpExists, o.vo, o.rc)
            python_exe == python_exec(cv.interp)
            steps == IF cv.raised THEN <<>>
                     ELSE install_steps(python_exe, override, rcs, cv.root)
            root2 == RootAfter(steps, requirements_txt, rootPkgs)
            path2 == IF cv.raised THEN sysPath
                     ELSE add_virtualenv_to_syspath(sysPath, cv.root)
            verdict == check_dependencies_installed(requirements_txt, path2,
                                                    hostPkgs, root2)
            tail == IF cv.raised THEN <<>>
                    ELSE (IF path2 # sysPath THEN <<EvAppend>> ELSE <<>>)
                             \o <<EvVerify(verdict)>>
        IN  /\ call = Idle
            /\ Len(path2) <= 1 + MaxAppends
            /\ rootExists' = cv.root
            /\ interpExists' = cv.interp
            /\ venvRan' = (venvRan \/ HasVenv(cv.log))
            /\ venvRanAgain' = (venvRanAgain \/ (venvRan /\ HasVenv(cv.log)))
            /\ rootPkgs' = root2
            /\ sysPath' = path2
            /\ log' = cv.log \o steps \o tail
            /\ call' = Call("install", override, cv.raised,
                            IF cv.raised THEN "raised" ELSE install_return(verdict))
            /\ UNCHANGED <<requirements_txt, hostPkgs, sitePkgs, lastInstallClean>>

\* uninstall_packages()
UninstallPackages ==
    \E rc \in (IF requirements_txt.exists THEN RC ELSE {0}),
       rcs \in UninstallOutcomes(requirements_txt.lines) :
        LET python_exe == python_exec(interpExists)
            events == IF ~requirements_txt.exists THEN <<>>
                      ELSE <<EvEnsurepip(python_exe, rc)>>
                               \o uninstall_loop(requirements_txt.lines,
                                                 python_exe, rcs, 1)
        IN  /\ call = Idle
            /\ hostPkgs' = hostPkgs \ Removed(events, "host")
            /\ sitePkgs' = sitePkgs \ Removed(events, "env")
            /\ log' = events
            /\ call' = Call("uninstall", FALSE, FALSE, "None")
            /\ UNCHANGED <<requirements_txt, rootExists, interpExists, sysPath,
                           rootPkgs, venvRan, venvRanAgain, lastInstallClean>>

\* a check that also appends the environment root to sys.path
CheckDependenciesAppending ==
    LET path2 == add_virtualenv_to_syspath(sysPath, TRUE)
        verdict == check_dependencies_installed(requirements_txt, path2,
                                                hostPkgs, rootPkgs)
    IN  /\ call = Idle
        /\ Len(path2) <= 1 + MaxAppends
        /\ sysPath' = path2
        /\ log' = <<EvVerify(verdict)>>
        /\ call' = Call("verify", FALSE, FALSE, BoolStr(verdict))
        /\ UNCHANGED <<requirements_txt, rootExists, interpExists,
                       hostPkgs, rootPkgs, sitePkgs, venvRan, venvRanAgain,
                       lastInstallClean>>

\* check_dependencies_installed()
CheckDependencies ==
    LET verdict == check_dependencies_installed(requirements_txt, sysPath,
                                                hostPkgs, rootPkgs)
    IN  /\ call = Idle
        /\ log' = <<EvVerify(verdict)>>
        /\ call' = Call("verify", FALSE, FALSE, BoolStr(verdict))
        /\ UNCHANGED <<requirements_txt, rootExists, interpExists, sysPath,
                       hostPkgs, rootPkgs, sitePkgs, venvRan, venvRanAgain,
                       lastInstallClean>>

\* every process of events exited with status 0
AllZero(events) == \A i \in DOMAIN events : events[i].rc = 0

\* the call returns (or its exception leaves) to the host; lastInstallClean
\* remembers whether it was an install_packages whose processes all succeeded
Return ==
    /\ call # Idle
    /\ call' = Idle
    /\ log' = <<>>
    /\ lastInstallClean' = IF call.op = "install"
                            THEN ~call.raised /\ AllZero(log)
                            ELSE IF call.op = "uninstall" THEN FALSE
                            ELSE lastInstallClean
    /\ UNCHANGED <<requirements_txt, rootExists, interpExists, sysPath,
                   hostPkgs, rootPkgs, sitePkgs, venvRan, venvRanAgain>>

Next ==
    \/ CreateVenv
    \/ InstallPackages
    \/ UninstallPackages
    \/ CheckDependencies
    \/ Return

Spec == Init /\ [][Next]_vars

(* ---------------------------- properties ------------------------------- *)

\* helpers of the properties, written without the operators of the model

Last(q) == q[Len(q)]

Kinds(events) == [i \in DOMAIN events |-> events[i].kind]

OfKind(events, k) == SelectSeq(events, LAMBDA e : e.kind = k)

\* the line has a character that is not whitespace
NonBlank(line) == \E k \in DOMAIN line : ~IsSpace(line[k])

\* name is line without its leading and trailing whitespace
IsTrimOf(name, line) ==
    \E a \in DOMAIN line, b \in DOMAIN line :
        /\ a <= b
        /\ name = SubSeq(line, a, b)
        /\ ~IsSpace(line[a])
        /\ ~IsSpace(line[b])
        /\ \A k \in DOMAIN line : (k < a \/ k > b) => IsSpace(line[k])

\* the module can be imported in the running process
Importable(name) ==
    \/ name \in hostPkgs
    \/ name \in rootPkgs /\ \E i \in DOMAIN sysPath : sysPath[i] = "env_root"

\* every non-blank line of the requirements file names an importable module
AllEntriesImportable ==
    \A i \in DOMAIN requirements_txt.lines :
        LET line == requirements_txt.lines[i]
        IN  \A a \in DOMAIN line, b \in DOMAIN line :
                IsTrimOf(SubSeq(line, a, b), line) => Importable(SubSeq(line, a, b))

\* the index of the j-th non-blank line
NthNonBlank(lines, j) ==
    CHOOSE i \in DOMAIN lines :
        /\ NonBlank(lines[i])
        /\ Cardinality({k \in 1..i : NonBlank(lines[k])}) = j

\* the names the requirements file lists
ManifestNames ==
    UNION {{SubSeq(requirements_txt.lines[i], a, b) :
                a \in DOMAIN requirements_txt.lines[i],
                b \in DOMAIN requirements_txt.lines[i]}
           \cap {name \in Pkgs : IsTrimOf(name, requirements_txt.lines[i])} :
           i \in DOMAIN requirements_txt.lines}

\* the steps of an install_packages call that got past create_venv
StepsAfterProvisioning ==
    <<"ensurepip", "pip-upgrade", "pip-install", "syspath-append", "verify">>

\* C1 as stated: the value install_packages returns is the boolean the
\* verification pass at its end produced.
C1_InstallReturnsVerdict ==
    (call.op = "install" /\ ~call.raised) =>
        /\ log # <<>>
        /\ Last(log).kind = "verify"
        /\ call.ret = BoolStr(Last(log).ok)

\* C1 amended: an install_packages call that gets past provisioning ends with
\* the verification pass, run on the state the installation left, and returns
\* None whatever that pass found.
C1_InstallDropsVerdict ==
    (call.op = "install" /\ ~call.raised) =>
        /\ log # <<>>
        /\ Last(log).kind = "verify"
        /\ Last(log).ok = (requirements_txt.exists /\ AllEntriesImportable)
        /\ call.ret = "None"

C1_Witness ==
    /\ call.op = "install"
    /\ ~call.raised
    /\ Last(log).kind = "verify"
    /\ Last(log).ok
    /\ call.ret = "None"

\* C2: check_dependencies_installed returns False when the requirements file
\* is missing, and otherwise True exactly when every line that is non-blank
\* after trimming names an importable module (so True when no line is).
C2_VerifyVerdict ==
    call.op = "verify" =>
        call.ret = BoolStr(requirements_txt.exists /\ AllEntriesImportable)

C2_Witness ==
    /\ call.op = "verify"
    /\ call.ret = "True"
    /\ \E i \in DOMAIN requirements_txt.lines : ~NonBlank(requirements_txt.lines[i])
    /\ \E i \in DOMAIN requirements_txt.lines :
           /\ NonBlank(requirements_txt.lines[i])
           /\ ~IsTrimOf(requirements_txt.lines[i], requirements_txt.lines[i])

\* C3: a check_dependencies_installed call starts no process, creates no
\* environment, and leaves the requirements file, the environment root, the
\* interpreter, the package directories and sys.path as they were; with the
\* requirements file absent it returns False.
C3_VerifyReadOnly ==
    [][call'.op = "verify" =>
          /\ UNCHANGED <<requirements_txt, rootExists, interpExists, sysPath,
                         hostPkgs, rootPkgs, sitePkgs, venvRan, venvRanAgain>>
          /\ Kinds(log') = <<"verify">>
          /\ ~requirements_txt.exists => call'.ret = "False"]_vars

C3_Witness ==
    /\ call.op = "verify"
    /\ ~requirements_txt.exists
    /\ ~rootExists
    /\ call.ret = "False"
    /\ Kinds(log) = <<"verify">>

\* C4 as stated: over any sequence of calls venv.create runs at most once, and
\* a call that finds the root present creates nothing, starts no process in
\* create_venv and raises nothing.
C4_CreateAtMostOnce ==
    /\ ~venvRanAgain
    /\ (call.op \in {"create_venv", "install"} /\ call.pre_root) =>
           ~HasVenv(log) /\ ~call.raised
    /\ (call.op = "create_venv" /\ call.pre_root) => log = <<>>

\* C4 amended: venv.create runs only in a call that finds the root absent, and
\* the root, once there, stays, so venv.create never runs again after a run
\* that left a root; a call that finds the root present creates nothing,
\* starts no process in create_venv (install_packages goes on to its own
\* single ensurepip) and raises nothing.
C4_CreateOnlyWhenAbsent ==
    [][/\ rootExists => rootExists'
       /\ (call' # Idle /\ HasVenv(log')) => ~rootExists
       /\ (rootExists /\ call'.op \in {"create_venv", "install"}) =>
              ~HasVenv(log') /\ ~call'.raised
       /\ (rootExists /\ call'.op = "create_venv") =>
              /\ log' = <<>>
              /\ UNCHANGED <<requirements_txt, interpExists, sysPath,
                             hostPkgs, rootPkgs, sitePkgs>>
       /\ (rootExists /\ call'.op = "install") =>
              Len(OfKind(log', "ensurepip")) = 1]_vars

C4_Witness ==
    /\ call.op = "create_venv"
    /\ call.pre_root
    /\ venvRan
    /\ ~venvRanAgain
    /\ log = <<>>
    /\ ~call.raised

\* C5: the steps of an install_packages call come in the order create_venv
\* (venv.create and its ensurepip, when the root is absent), ensurepip, pip
\* upgrade, pip install -r with the root as target, sys.path append,
\* verification; all of them run whatever the exit statuses, and pip install
\* is started only when the root exists.
C5_InstallOrder ==
    call.op = "install" =>
        /\ Kinds(log) =
               IF call.raised THEN <<"venv.create">>
               ELSE (IF call.pre_root THEN <<>>
                     ELSE <<"venv.create", "ensurepip">>)
                        \o StepsAfterProvisioning
        /\ \A i \in DOMAIN log : log[i].kind = "pip-install" => log[i].root

C5_Witness ==
    /\ call.op = "install"
    /\ ~call.pre_root
    /\ Len(log) = 7
    /\ \A i \in 2..5 : log[i].rc = 1
    /\ log[5].kind = "pip-install"
    /\ log[6].kind = "syspath-append"
    /\ log[7].kind = "verify"

\* C6: with the requirements file present, uninstall_packages starts, after
\* one ensurepip, exactly one `pip uninstall -y` per line that is non-blank
\* after trimming, for the trimmed name, in file order, duplicates included,
\* whatever the exit statuses of the earlier ones.
C6_UninstallEveryEntry ==
    (call.op = "uninstall" /\ requirements_txt.exists) =>
        LET lines == requirements_txt.lines
            un == OfKind(log, "pip-uninstall")
        IN  /\ Len(log) = 1 + Len(un)
            /\ log[1].kind = "ensurepip"
            /\ Len(un) = Cardinality({i \in DOMAIN lines : NonBlank(lines[i])})
            /\ \A j \in DOMAIN un :
                   IsTrimOf(un[j].pkg, lines[NthNonBlank(lines, j)])

C6_Witness ==
    /\ call.op = "uninstall"
    /\ Len(log) = 3
    /\ log[2].kind = "pip-uninstall"
    /\ log[2].rc = 1
    /\ log[3].kind = "pip-uninstall"
    /\ log[3].pkg # log[2].pkg

\* C7 as stated: every install_packages call starts exactly one pip install
\* -r, with --force-reinstall exactly when override is set.
C7_OneInstallPerCall ==
    call.op = "install" =>
        /\ Len(OfKind(log, "pip-install")) = 1
        /\ OfKind(log, "pip-install")[1].force = call.override

\* C7 amended: every install_packages call that gets past provisioning starts
\* exactly one pip install -r, with --force-reinstall exactly when override is
\* set, also when every listed package is importable already.
C7_OneInstallPerProvisionedCall ==
    (call.op = "install" /\ ~call.raised) =>
        /\ Len(OfKind(log, "pip-install")) = 1
        /\ OfKind(log, "pip-install")[1].force = call.override

C7_Witness ==
    /\ call.op = "install"
    /\ call.override
    /\ requirements_txt.exists
    /\ ManifestNames # {}
    /\ ManifestNames \subseteq hostPkgs
    /\ Len(OfKind(log, "pip-install")) = 1
    /\ OfKind(log, "pip-install")[1].force

\* C8: when venv.create fails inside install_packages the failure reaches the
\* caller and nothing else of the call happens: no ensurepip, no pip upgrade,
\* no pip install, no sys.path append, no verification.
C8_ProvisioningFailureIsFatal ==
    [][(call'.op = "install"
            /\ \E i \in DOMAIN log' :
                   log'[i].kind = "venv.create" /\ log'[i].rc # 0) =>
          /\ call'.raised
          /\ Kinds(log') = <<"venv.create">>
          /\ UNCHANGED <<requirements_txt, sysPath, hostPkgs, rootPkgs,
                         sitePkgs>>]_vars

C8_Witness ==
    /\ call.op = "install"
    /\ call.raised
    /\ log = <<EvVenv(1)>>
    /\ sysPath = <<"host">>

\* C9: every installer process (ensurepip, pip upgrade, pip install, pip
\* uninstall) is run by the interpreter of the environment, never by the
\* interpreter that runs the add-on.
C9_InstallerRunsInEnvironment ==
    \A i \in DOMAIN log :
        log[i].kind \in ProcessKinds => log[i].exe = "env"

\* C10: after an install_packages whose processes all succeeded and a
\* following uninstall_packages whose processes all succeeded, for a
\* requirements file that lists packages none of which the host had, no
\* listed package is left in the environment root and verification fails.
C10_UninstallUndoesInstall ==
    [][(/\ call'.op = "uninstall"
        /\ lastInstallClean
        /\ AllZero(log')
        /\ requirements_txt.exists
        /\ ManifestNames # {}
        /\ ManifestNames \cap hostPkgs = {})
       =>
          /\ ManifestNames \cap rootPkgs' = {}
          /\ ~(requirements_txt.exists /\ AllEntriesImportable)']_vars

====
